---- MODULE Spec2Model ----
(***************************************************************************)
(* V-Face Matching Service: the enroll / search / delete handlers of       *)
(* src/matching/main.py over the Qdrant collection driven through          *)
(* src/matching/qdrant_store.py, with payloads decrypted by                *)
(* src/matching/crypto_utils.py.                                           *)
(*                                                                         *)
(* Numbers are exact: a unit vector v/|v| is kept as the pair              *)
(* (num = v, den2 = |v|^2) and similarities are compared by cross          *)
(* multiplication, so float32 rounding is not part of the model.           *)
(* A vector of floats is written [len, lead]: its length and its leading   *)
(* components, every component after them being 0.                         *)
(***************************************************************************)
EXTENDS Integers, Sequences, FiniteSets, TLC

\* ------------------------------------------------------------------------
\* Bounds of the model
\* ------------------------------------------------------------------------

\* enroll and delete calls started in one behaviour (search calls are not
\* counted: they leave the collection as it is).
MaxCalls == 3

\* ------------------------------------------------------------------------
\* Program constants
\* ------------------------------------------------------------------------

\* main.py:127 "if len(embedding) != 128"
EMBED_LEN == 128

\* qdrant_store.py:28 VECTOR_DIM, the size the collection is created with
VECTOR_DIM == 128

\* main.py:30 SIMILARITY_THRESHOLD = 0.85, in hundredths
SIMILARITY_THRESHOLD == 85

\* qdrant_store.py:71 and :116, point_id[:16]
KEY_HEX_LEN == 16

\* main.py:86 "64-char hex fingerprint"
FP_LEN == 64

\* main.py:29 MATCHING_SECRET
MATCHING_SECRET == "dev-secret-change-me"

None == "None"

\* ------------------------------------------------------------------------
\* Strings as sequences of characters; bytes.fromhex and int()
\* ------------------------------------------------------------------------

HexLower == <<"0","1","2","3","4","5","6","7","8","9","a","b","c","d","e","f">>

HexUpper == <<"0","1","2","3","4","5","6","7","8","9","A","B","C","D","E","F">>

IsHexChar(c) == \E i \in 1..16 : HexLower[i] = c \/ HexUpper[i] = c

HexVal(c) == (CHOOSE i \in 1..16 : HexLower[i] = c \/ HexUpper[i] = c) - 1

Take(s, n) == SubSeq(s, 1, IF Len(s) < n THEN Len(s) ELSE n)

\* bytes.fromhex(s): ValueError on an odd length or a non-hex character.
FromHexOk(s) == Len(s) % 2 = 0 /\ \A i \in 1..Len(s) : IsHexChar(s[i])

FromHex(s) == [i \in 1..(Len(s) \div 2) |-> 16 * HexVal(s[2*i - 1]) + HexVal(s[2*i])]

RECURSIVE FromBytesBig(_)
\* int.from_bytes(b, "big")
FromBytesBig(b) ==
    IF Len(b) = 0 THEN 0
    ELSE 256 * FromBytesBig(SubSeq(b, 1, Len(b) - 1)) + b[Len(b)]

IsDigit(c) == \E i \in 1..10 : HexLower[i] = c

RECURSIVE DigitsVal(_)
DigitsVal(s) ==
    IF Len(s) = 0 THEN 0
    ELSE 10 * DigitsVal(SubSeq(s, 1, Len(s) - 1)) + HexVal(s[Len(s)])

\* int(s) of a decimal literal: an optional sign, then one or more digits.
IntOk(s) ==
    LET body == IF Len(s) > 0 /\ s[1] \in {"+", "-"} THEN Tail(s) ELSE s
    IN  Len(body) > 0 /\ \A i \in 1..Len(body) : IsDigit(body[i])

IntVal(s) ==
    IF s[1] = "-" THEN 0 - DigitsVal(Tail(s))
    ELSE IF s[1] = "+" THEN DigitsVal(Tail(s))
    ELSE DigitsVal(s)

\* ------------------------------------------------------------------------
\* Fingerprints and the storage key
\* ------------------------------------------------------------------------

Zeros(n) == [i \in 1..n |-> "0"]

\* A 64-character hex fingerprint: character 16 is h, character 17 is t, the
\* rest are "0". Two fingerprints with the same h differ only after the
\* 16th character.
MkFp(h, t) ==
    Zeros(KEY_HEX_LEN - 1) \o <<HexLower[h + 1]>> \o <<HexLower[t + 1]>>
        \o Zeros(FP_LEN - KEY_HEX_LEN - 1)

\* Two fingerprints with different keys, and a third colliding with the first.
GoodFingerprints == {MkFp(1, 0), MkFp(2, 0), MkFp(1, 1)}

\* Not hex: bytes.fromhex raises ValueError on it.
BadFingerprint == <<"z", "z">>

Fingerprints == GoodFingerprints \cup {BadFingerprint}

StorageKeyOk(fp) == FromHexOk(Take(fp, KEY_HEX_LEN))

\* A key derivation that reads one byte past the 16th hex character.
StorageKeyLongSlice(fp) == FromBytesBig(FromHex(Take(fp, KEY_HEX_LEN + 2)))

\* numeric_id = int.from_bytes(bytes.fromhex(point_id[:16]), "big")
StorageKey(fp) == FromBytesBig(FromHex(Take(fp, KEY_HEX_LEN)))

\* ------------------------------------------------------------------------
\* Embeddings, L2 normalisation and cosine similarity
\* ------------------------------------------------------------------------

\* The list of n floats that starts with lead and goes on with zeros.
Pad(lead, n) == [len |-> n, lead |-> lead]

VecA == Pad(<<1>>, EMBED_LEN)

\* cos(VecA, VecD) = 17/20, exactly the enrollment threshold.
VecD == Pad(<<17, 10, 3, 1, 1>>, EMBED_LEN)

\* cos(VecA, VecF) = 3/sqrt(13) < 0.85; cos(VecD, VecF) = 71/(20 sqrt(13)) > 0.85.
VecF == Pad(<<3, 2>>, EMBED_LEN)

VecZero == Pad(<<>>, EMBED_LEN)

VecShort == Pad(<<1>>, 3)

VecLong == Pad(<<0, 1>>, EMBED_LEN + 1)

RECURSIVE DotTo(_, _, _)
\* The sum of a[i] * b[i] for i in 1..n.
DotTo(a, b, n) == IF n = 0 THEN 0 ELSE DotTo(a, b, n - 1) + a[n] * b[n]

\* The dot product of two vectors of one length: the components after the
\* shorter lead contribute 0.
Dot(a, b) ==
    DotTo(a.lead, b.lead, IF Len(a.lead) < Len(b.lead) THEN Len(a.lead) ELSE Len(b.lead))

\* vec = np.array(embedding); norm = np.linalg.norm(vec);
\* if norm > 0: vec = vec / norm.  The result is num / sqrt(den2).
Normalize(v) ==
    LET n2 == Dot(v, v)
    IN  IF n2 > 0 THEN [num |-> v, den2 |-> n2] ELSE [num |-> v, den2 |-> 1]

NoVec == [num |-> Pad(<<>>, 0), den2 |-> 0]

\* ------------------------------------------------------------------------
\* crypto_utils.py: payload parsing, key resolution, AES-256-GCM
\* ------------------------------------------------------------------------

RECURSIVE Split(_, _)
\* s.split(sep)
Split(s, sep) ==
    IF \A i \in 1..Len(s) : s[i] # sep THEN <<s>>
    ELSE LET k == CHOOSE i \in 1..Len(s) :
                      s[i] = sep /\ \A j \in 1..(i - 1) : s[j] # sep
         IN  <<SubSeq(s, 1, k - 1)>> \o Split(SubSeq(s, k + 1, Len(s)), sep)

Colon(a, b) == a \o <<":">> \o b

\* os.getenv("VFACE_ENCRYPTION_KEY_V<n>"): keys are configured for versions
\* 1 and 2; VFACE_ENCRYPTION_KEY (the unversioned fallback) is not set.
VersionedKeyHex == [v \in {1, 2} |-> IF v = 1 THEN <<"1", "1">> ELSE <<"2", "2">>]

MainKeyHex == None

NoValue == Pad(<<>>, 0)

\* _get_key(version): [exc, value]
GetKey(version) ==
    IF version \in DOMAIN VersionedKeyHex
    THEN IF FromHexOk(VersionedKeyHex[version])
         THEN [exc |-> None, value |-> FromHex(VersionedKeyHex[version])]
         ELSE [exc |-> "MalformedHex", value |-> <<>>]
    ELSE IF MainKeyHex # None
    THEN IF FromHexOk(MainKeyHex)
         THEN [exc |-> None, value |-> FromHex(MainKeyHex)]
         ELSE [exc |-> "MalformedHex", value |-> <<>>]
    ELSE [exc |-> "KeyNotFound", value |-> <<>>]

\* The encryptions the API side has produced: AES-GCM under key, iv gives
\* (ct, tag) for the JSON text of plain.
Codebook ==
    { [key |-> <<17>>, iv |-> <<1>>, ct |-> <<202>>, tag |-> <<10>>, plain |-> VecA],
      [key |-> <<17>>, iv |-> <<1>>, ct |-> <<205>>, tag |-> <<13>>, plain |-> VecD],
      [key |-> <<34>>, iv |-> <<1>>, ct |-> <<207>>, tag |-> <<15>>, plain |-> VecF],
      [key |-> <<17>>, iv |-> <<1>>, ct |-> <<192>>, tag |-> <<0>>,  plain |-> VecZero],
      [key |-> <<17>>, iv |-> <<1>>, ct |-> <<193>>, tag |-> <<1>>,  plain |-> VecShort],
      [key |-> <<34>>, iv |-> <<1>>, ct |-> <<194>>, tag |-> <<2>>,  plain |-> VecLong] }

\* AESGCM(key).decrypt(iv, ciphertext + tag, None), then json.loads:
\* InvalidTag unless (key, iv, ct, tag) is an encryption that was produced.
AesGcmDecrypt(key, iv, ct, tag) ==
    LET m == {e \in Codebook : e.key = key /\ e.iv = iv /\ e.ct = ct /\ e.tag = tag}
    IN  IF m = {} THEN [exc |-> "AuthenticationFailed", value |-> NoValue]
        ELSE [exc |-> None, value |-> (CHOOSE e \in m : TRUE).plain]

\* The part of decrypt_embedding after the format dispatch.
DecryptParts(version, iv_hex, tag_hex, ct_hex) ==
    LET key == GetKey(version)
    IN  IF key.exc # None THEN [exc |-> key.exc, value |-> NoValue]
        ELSE IF ~(FromHexOk(iv_hex) /\ FromHexOk(tag_hex) /\ FromHexOk(ct_hex))
        THEN [exc |-> "MalformedHex", value |-> NoValue]
        ELSE AesGcmDecrypt(key.value, FromHex(iv_hex), FromHex(ct_hex), FromHex(tag_hex))

\* The format dispatch of decrypt_embedding (lines 40-49): the version and
\* the three hex fields, or the ValueError of int() ("BadVersion") or of the
\* else branch ("UnknownFormat").
Dispatch(encrypted_payload) ==
    LET parts == Split(encrypted_payload, ":")
        fail(e) == [exc |-> e, version |-> 0, iv_hex |-> <<>>, tag_hex |-> <<>>,
                    ct_hex |-> <<>>]
    IN  IF Len(parts[1]) > 0 /\ parts[1][1] = "v" /\ Len(parts) = 4
        THEN IF IntOk(Tail(parts[1]))
             THEN [exc |-> None, version |-> IntVal(Tail(parts[1])), iv_hex |-> parts[2],
                   tag_hex |-> parts[3], ct_hex |-> parts[4]]
             ELSE fail("BadVersion")
        ELSE IF Len(parts) = 3
        THEN [exc |-> None, version |-> 1, iv_hex |-> parts[1], tag_hex |-> parts[2],
              ct_hex |-> parts[3]]
        ELSE fail("UnknownFormat")

\* decrypt_embedding(encrypted_payload): [exc, value]; exc names the failure
\* of the exception raised (every one is a plain Exception to the handlers).
DecryptEmbedding(encrypted_payload) ==
    LET f == Dispatch(encrypted_payload)
    IN  IF f.exc # None THEN [exc |-> f.exc, value |-> NoValue]
        ELSE DecryptParts(f.version, f.iv_hex, f.tag_hex, f.ct_hex)

Hx(a, b) == <<a, b>>

PayloadA == Colon(<<"v", "1">>, Colon(Hx("0", "1"), Colon(Hx("0", "a"), Hx("c", "a"))))

\* Legacy three-field form.
PayloadD == Colon(Hx("0", "1"), Colon(Hx("0", "d"), Hx("c", "d")))

PayloadF == Colon(<<"v", "2">>, Colon(Hx("0", "1"), Colon(Hx("0", "f"), Hx("c", "f"))))

PayloadZero == Colon(<<"v", "1">>, Colon(Hx("0", "1"), Colon(Hx("0", "0"), Hx("c", "0"))))

PayloadShort == Colon(<<"v", "1">>, Colon(Hx("0", "1"), Colon(Hx("0", "1"), Hx("c", "1"))))

PayloadLong == Colon(<<"v", "2">>, Colon(Hx("0", "1"), Colon(Hx("0", "2"), Hx("c", "2"))))

\* Two fields.
PayloadBadFormat == Colon(Hx("0", "1"), Hx("0", "a"))

\* Four fields, a version no key is configured for.
PayloadNoKey == Colon(<<"v", "9">>, Colon(Hx("0", "1"), Colon(Hx("0", "a"), Hx("c", "a"))))

\* An iv that is not hex.
PayloadBadHex == Colon(<<"v", "1">>, Colon(Hx("z", "z"), Colon(Hx("0", "a"), Hx("c", "a"))))

\* PayloadA's ciphertext under PayloadD's tag.
PayloadTampered == Colon(<<"v", "1">>, Colon(Hx("0", "1"), Colon(Hx("0", "d"), Hx("c", "a"))))

GoodPayloads == {PayloadA, PayloadD, PayloadF, PayloadZero}

WrongDimPayloads == {PayloadShort, PayloadLong}

BadPayloads == {PayloadBadFormat, PayloadNoKey, PayloadBadHex, PayloadTampered}

Payloads == GoodPayloads \cup WrongDimPayloads \cup BadPayloads

\* decrypt_embedding on every payload of the model, evaluated once.
Decrypted == [p \in Payloads |-> DecryptEmbedding(p)]

DecryptFailures == {"UnknownFormat", "BadVersion", "KeyNotFound", "MalformedHex",
                    "AuthenticationFailed"}

\* ------------------------------------------------------------------------
\* The Qdrant collection: points [id, vector, payload], cosine distance
\* ------------------------------------------------------------------------

\* The unit vectors a 128-d payload of the model normalises to.
UnitVecs == {Normalize(Decrypted[p].value) : p \in GoodPayloads}

\* Dot products of the vectors that can reach the collection, evaluated once.
DotTable == [a \in UnitVecs, b \in UnitVecs |-> Dot(a.num, b.num)]

\* The cosine score Qdrant computes for stored vector a against query q, as
\* the exact fraction dot / sqrt(na * nq); a zero vector scores 0.
Cosine(a, q) == [dot |-> DotTable[a, q], na |-> DotTable[a, a], nq |-> DotTable[q, q]]

\* score >= thr / 100
ScoreAtLeast(c, thr) ==
    IF c.na = 0 \/ c.nq = 0 THEN thr <= 0
    ELSE IF c.dot >= 0
    THEN thr <= 0 \/ 10000 * c.dot * c.dot >= thr * thr * c.na * c.nq
    ELSE thr < 0 /\ 10000 * c.dot * c.dot <= thr * thr * c.na * c.nq

\* score > thr / 100
ScoreAbove(c, thr) ==
    IF c.na = 0 \/ c.nq = 0 THEN thr < 0
    ELSE IF c.dot >= 0
    THEN thr < 0 \/ 10000 * c.dot * c.dot > thr * thr * c.na * c.nq
    ELSE thr < 0 /\ 10000 * c.dot * c.dot < thr * thr * c.na * c.nq

\* Two scores against the same query: c1 >= c2.
ScoreGE(c1, c2) ==
    LET d1 == IF c1.na = 0 THEN 0 ELSE c1.dot
        d2 == IF c2.na = 0 THEN 0 ELSE c2.dot
        n1 == IF c1.na = 0 THEN 1 ELSE c1.na
        n2 == IF c2.na = 0 THEN 1 ELSE c2.na
    IN  IF d1 >= 0 /\ d2 <= 0 THEN TRUE
        ELSE IF d1 < 0 /\ d2 >= 0 THEN FALSE
        ELSE IF d1 >= 0 THEN d1 * d1 * n2 >= d2 * d2 * n1
        ELSE d1 * d1 * n2 <= d2 * d2 * n1

\* client.upsert(points=[point]): the point replaces any point with its id.
QdrantUpsert(pts, point) == {r \in pts : r.id # point.id} \cup {point}

MergePayload(old, new) ==
    [k \in DOMAIN old \cup DOMAIN new |-> IF k \in DOMAIN new THEN new[k] ELSE old[k]]

\* client.overwrite_payload: the payload is replaced, not merged.
QdrantOverwritePayload(pts, ids, payload) ==
    {IF r.id \in ids THEN [r EXCEPT !.payload = payload] ELSE r : r \in pts}

\* client.delete: the points are removed.
QdrantDeletePoints(pts, ids, payload) == {r \in pts : r.id \notin ids}

\* client.set_payload(payload, points=ids): the keys given are set on every
\* listed point that exists; the rest of each payload and every other point
\* are left alone.
QdrantSetPayload(pts, ids, payload) ==
    {IF r.id \in ids THEN [r EXCEPT !.payload = MergePayload(r.payload, payload)] ELSE r
        : r \in pts}

\* A threshold that is exclusive.
QdrantHitsExclusive(pts, q, thr) ==
    {r \in pts : r.payload.status = "active" /\ ScoreAbove(Cosine(r.vector, q), thr)}

\* The points query_points may consider: status = "active" and
\* score >= score_threshold.
QdrantHits(pts, q, thr) ==
    {r \in pts : r.payload.status = "active" /\ ScoreAtLeast(Cosine(r.vector, q), thr)}

Min(a, b) == IF a < b THEN a ELSE b

\* client.query_points(query=q, query_filter=status=active, limit, score_threshold):
\* every answer Qdrant may give, the best `limit` hits by descending score
\* (equal scores in either order).
QdrantQueryPoints(pts, q, thr, limit) ==
    LET hits == QdrantHits(pts, q, thr)
        k    == Min(limit, Cardinality(hits))
    IN  { s \in [1..k -> hits] :
            /\ \A i, j \in 1..k : i # j => s[i] # s[j]
            /\ \A i, j \in 1..k :
                 i < j => ScoreGE(Cosine(s[i].vector, q), Cosine(s[j].vector, q))
            /\ \A h \in hits :
                 (\A i \in 1..k : s[i] # h)
                    => \A i \in 1..k : ScoreGE(Cosine(s[i].vector, q), Cosine(h.vector, q)) }

\* A search with no filter on status.
SearchSimilarUnfiltered(pts, q, thr, top_k) ==
    { [i \in 1..Len(s) |->
          [fingerprint |-> s[i].payload.fingerprint,
           user_id     |-> s[i].payload.user_id,
           score       |-> Cosine(s[i].vector, q)]]
        : s \in QdrantQueryPoints({[r EXCEPT !.payload.status = "active"] : r \in pts},
                                  q, thr, top_k) }

\* A search that returns only the records whose vector is the query itself.
SearchSimilarExact(pts, q, thr, top_k) ==
    { [i \in 1..Len(s) |->
          [fingerprint |-> s[i].payload.fingerprint,
           user_id     |-> s[i].payload.user_id,
           score       |-> Cosine(s[i].vector, q)]]
        : s \in QdrantQueryPoints({r \in pts : r.vector = q}, q, thr, top_k) }

\* search_similar(client, query_vector, threshold, top_k): the lists it may
\* return, one dict per hit. (The score is kept exact; round(score, 4) is
\* not modelled.)
SearchSimilar(pts, q, thr, top_k) ==
    { [i \in 1..Len(s) |->
          [fingerprint |-> s[i].payload.fingerprint,
           user_id     |-> s[i].payload.user_id,
           score       |-> Cosine(s[i].vector, q)]]
        : s \in QdrantQueryPoints(pts, q, thr, top_k) }

\* An upsert that is conditional on no active record being similar.
UpsertIfNoDuplicate(pts, point_id, vector, payload) ==
    IF QdrantHits(pts, vector, SIMILARITY_THRESHOLD) # {} THEN pts
    ELSE QdrantUpsert(pts, [id      |-> StorageKey(point_id),
                            vector  |-> vector,
                            payload |-> MergePayload(payload, [fingerprint |-> point_id])])

\* upsert_embedding(client, point_id, vector, payload) once the key is derived.
UpsertEmbedding(pts, point_id, vector, payload) ==
    QdrantUpsert(pts, [id      |-> StorageKey(point_id),
                       vector  |-> vector,
                       payload |-> MergePayload(payload, [fingerprint |-> point_id])])

\* A revocation that removes the point.
DeleteVectorRemoves(pts, fingerprint) ==
    QdrantDeletePoints(pts, {StorageKey(fingerprint)}, [status |-> "revoked"])

\* A revocation that replaces the payload by {"status": "revoked"}.
DeleteVectorOverwrites(pts, fingerprint) ==
    QdrantOverwritePayload(pts, {StorageKey(fingerprint)}, [status |-> "revoked"])

\* A revocation by upsert: a point is written when there is none.
DeleteVectorUpserts(pts, fingerprint) ==
    IF \E r \in pts : r.id = StorageKey(fingerprint)
    THEN QdrantSetPayload(pts, {StorageKey(fingerprint)}, [status |-> "revoked"])
    ELSE pts \cup {[id |-> StorageKey(fingerprint), vector |-> Normalize(VecZero),
                    payload |-> [status |-> "revoked"]]}

\* A revocation that applies only to a record carrying the fingerprint.
DeleteVectorMatching(pts, fingerprint) ==
    {IF r.id = StorageKey(fingerprint) /\ r.payload.fingerprint = fingerprint
     THEN [r EXCEPT !.payload = MergePayload(r.payload, [status |-> "revoked"])] ELSE r
        : r \in pts}

\* delete_vector(client, fingerprint) once the key is derived.
DeleteVector(pts, fingerprint) ==
    QdrantSetPayload(pts, {StorageKey(fingerprint)}, [status |-> "revoked"])

\* ------------------------------------------------------------------------
\* Requests
\* ------------------------------------------------------------------------

Workers == {1, 2}

\* x_matching_secret: the configured secret, another one, or no header.
Secrets == {MATCHING_SECRET, "wrong", None}

\* metadata: None, or a dict given as its set of items.
NoMeta == [present |-> FALSE, items |-> {}]

Meta1 == [present |-> TRUE, items |-> {<<"source", "kiosk">>}]

\* bool(req.metadata)
MetaTruthy(m) == m.present /\ m.items # {}

\* bool(req.user_id)
StrTruthy(x) == x # None /\ x # ""

OneFp == MkFp(1, 0)

\* The optional fields of an EnrollRequest: both absent, or both given.
Profiles == {[user_id |-> None, metadata |-> NoMeta], [user_id |-> "u1", metadata |-> Meta1]}

\* The caller of fingerprint fp always sends the same optional fields: the
\* fingerprints MkFp(h, 0) none, the colliding one both.
ProfileOf(fp) ==
    CHOOSE pr \in Profiles : (pr.user_id = None) <=> (fp = BadFingerprint \/ fp[KEY_HEX_LEN + 1] = "0")

EnrollReq(fp, payload, profile, secret) ==
    [fingerprint |-> fp, encrypted_embedding |-> payload, user_id |-> profile.user_id,
     metadata |-> profile.metadata, secret |-> secret]

\* EnrollRequest with its header: every well-formed fingerprint and 128-d
\* payload under the right secret; the malformed fingerprint,
\* each failing payload and each wrong secret once.
EnrollRequests ==
    {EnrollReq(fp, p, ProfileOf(fp), MATCHING_SECRET) :
        fp \in GoodFingerprints, p \in GoodPayloads}
    \cup
    {EnrollReq(BadFingerprint, PayloadA, ProfileOf(BadFingerprint), MATCHING_SECRET)}
    \cup
    {EnrollReq(OneFp, p, ProfileOf(OneFp), MATCHING_SECRET) :
        p \in WrongDimPayloads \cup BadPayloads}
    \cup
    {EnrollReq(OneFp, PayloadA, ProfileOf(OneFp), x) : x \in Secrets \ {MATCHING_SECRET}}

\* threshold: None, or hundredths.
NoThreshold == 0 - 1

\* (threshold, top_k) of a SearchRequest: the defaults, threshold 0, and a
\* lower threshold with room for two results.
SearchOptions == {<<NoThreshold, 1>>, <<0, 1>>, <<50, 2>>}

SearchReq(payload, o, secret) ==
    [encrypted_embedding |-> payload, threshold |-> o[1], top_k |-> o[2], secret |-> secret]

\* SearchRequest with its header: every 128-d payload with the defaults,
\* two of them with the lower threshold too, one with threshold 0; a short
\* payload, a failing payload and a wrong secret once.
SearchRequests ==
    {SearchReq(p, <<NoThreshold, 1>>, MATCHING_SECRET) : p \in GoodPayloads}
    \cup
    {SearchReq(p, <<50, 2>>, MATCHING_SECRET) : p \in {PayloadA, PayloadD}}
    \cup
    {SearchReq(PayloadA, <<0, 1>>, MATCHING_SECRET)}
    \cup
    {SearchReq(p, <<NoThreshold, 1>>, MATCHING_SECRET) :
        p \in {PayloadShort, PayloadBadFormat}}
    \cup
    {SearchReq(PayloadA, <<NoThreshold, 1>>, "wrong")}

DeleteRequests ==
    [fingerprint : Fingerprints, secret : {MATCHING_SECRET}]
    \cup
    [fingerprint : {OneFp}, secret : {None}]

\* The readings of int(time.time()).
Times == {1700000000}

\* ------------------------------------------------------------------------
\* State
\* ------------------------------------------------------------------------

VARIABLES
    points,    \* the collection: a set of [id, vector, payload]
    pc,        \* per worker: "idle", or "checked" between enroll's duplicate
               \* check and its upsert
    pending,   \* per worker: the enroll in progress (request and vec)
    last,      \* the response being returned (op = "none": none), with what
               \* the call asked of the store
    calls,     \* enroll and delete calls started so far
    revoked,   \* history: the fingerprints a delete has answered success for
    enrolled,  \* history: the fingerprints an enroll has answered success for
    collections, \* the store's collections: a set of [name, size, distance, indexes]
    life,      \* per service instance: its lifespan and the ensure_collection
               \* call it is in
    parsed     \* a payload handed to decrypt_embedding and what came of it

vars == <<points, pc, pending, last, calls, revoked, enrolled, collections, life, parsed>>

\* What the request handlers leave alone.
aux == <<collections, life, parsed>>

NoScore == [dot |-> 0, na |-> 0, nq |-> 0]

NoDetail == [score |-> NoScore, fingerprint |-> <<>>]

NoRequest == EnrollReq(<<>>, <<>>, CHOOSE pr \in Profiles : pr.user_id = None, None)

NoPending == [req |-> NoRequest, vec |-> NoVec]

\* The plaintext buffers of a call: embedding, the list decrypt_embedding
\* returned ("absent": none, "live", "deleted": del embedding), and vec, the
\* numpy array ("absent", "live", "zeroed": vec.fill(0)).
NoBuf == [embedding |-> "absent", vec |-> "absent"]

Decoded == [embedding |-> "live", vec |-> "absent"]

Live == [embedding |-> "live", vec |-> "live"]

Scrubbed == [embedding |-> "deleted", vec |-> "zeroed"]

\* health's body: status, the error summary, and get_collection_info's dict.
NoDiag == [status |-> None, error |-> None, name |-> None, points_count |-> 0 - 1,
           size |-> 0 - 1, distance |-> None]

\* secret: the header the call came with. buf: its plaintext buffers when
\* the response is produced. rthr: the request's threshold, thr and limit:
\* the threshold and top_k search_similar was called with (-1: not
\* called). matched: SearchResponse.matched. diag: health's body.
Unasked ==
    [secret |-> None, buf |-> NoBuf, rthr |-> 0 - 1, thr |-> 0 - 1, limit |-> 0 - 1,
     matched |-> FALSE, diag |-> NoDiag]

\* A completed call. qlen: the length of the vector search_similar was
\* called with, ulen: of the vector client.upsert was called with (-1: not
\* called). detail: what a 409 discloses of the colliding record.
\* The further fields of a completed call are those of Unasked unless the
\* handler sets them with With.
Resp(op, code, err, fp, vec, results, detail, qlen, ulen) ==
    [op |-> op, code |-> code, err |-> err, fp |-> fp, vec |-> vec,
     results |-> results, detail |-> detail, qlen |-> qlen, ulen |-> ulen,
     secret |-> Unasked.secret, buf |-> Unasked.buf, rthr |-> Unasked.rthr,
     thr |-> Unasked.thr, limit |-> Unasked.limit, matched |-> Unasked.matched,
     diag |-> Unasked.diag]

\* resp with the fields of more set.
With(resp, more) ==
    [f \in DOMAIN resp |-> IF f \in DOMAIN more THEN more[f] ELSE resp[f]]

NoResp == Resp("none", 0, None, <<>>, NoVec, <<>>, NoDetail, -1, -1)

\* qdrant_store.py:27 COLLECTION_NAME
COLLECTION_NAME == "vface_embeddings"

\* main.py:43 max_retries
MAX_RETRIES == 10

\* The service instances that start against the one store; the requests of
\* the model are those of instance 1.
Instances == {1, 2}

\* What create_collection makes (qdrant_store.py 44-50).
NewCollection ==
    [name |-> COLLECTION_NAME, size |-> VECTOR_DIM, distance |-> "Cosine", indexes |-> {}]

\* create_payload_index on field_name (qdrant_store.py 52-56).
Indexed(c, field_name) == [c EXCEPT !.indexes = @ \cup {field_name}]

\* An instance whose module is loaded: qdrant = None, lifespan not entered.
\* attempt: the loop variable; at: the store call ensure_collection is at;
\* tries: the ensure_collection calls made; waited: the sleeps made;
\* ready, raced, degraded: the log lines "Matching Service ready", "race
\* condition handled", "Starting in degraded mode" were written.
Loaded ==
    [phase |-> "loaded", qdrant |-> None, attempt |-> 0, at |-> "list", tries |-> 0,
     waited |-> <<>>, ready |-> FALSE, raced |-> FALSE, degraded |-> FALSE]

\* An instance that serves after its first ensure_collection call found
\* the collection.
Served ==
    [Loaded EXCEPT !.phase = "serving", !.qdrant = "client", !.tries = 1, !.ready = TRUE]

NoParsed == [payload |-> <<>>, done |-> FALSE, exc |-> None, version |-> 0]

\* The handlers' state when the service starts to serve.
Idle ==
    /\ points = {}
    /\ pc = [w \in Workers |-> "idle"]
    /\ pending = [w \in Workers |-> NoPending]
    /\ last = NoResp
    /\ calls = 0
    /\ revoked = {}
    /\ enrolled = {}

\* The service serves; the collection and its index exist.
Init ==
    /\ Idle
    /\ collections = {Indexed(NewCollection, "status")}
    /\ life = [i \in Instances |-> Served]
    /\ parsed = NoParsed

\* ------------------------------------------------------------------------
\* main.py: the handlers
\* ------------------------------------------------------------------------

\* A secret that is not compared.
SecretAlwaysOk(x_matching_secret) == TRUE

\* verify_secret
SecretOk(x_matching_secret) == x_matching_secret = MATCHING_SECRET

\* enroll's except clauses: an HTTPException keeps its status, anything
\* else becomes 500.
EnrollFailureCode(err) ==
    IF err = "DimensionMismatch" THEN 400
    ELSE IF err = "DuplicateIdentity" THEN 409
    ELSE 500

\* search's and delete's except clause.
FailureCode(err) == 500

\* A payload that is stored pending instead of active.
EnrollPayloadPending(req, t) ==
    [user_id |-> IF StrTruthy(req.user_id) THEN req.user_id ELSE req.fingerprint,
     status |-> "pending", enrolled_at |-> t]

\* The payload enroll builds (step 5).
EnrollPayload(req, t) ==
    LET base == [user_id     |-> IF StrTruthy(req.user_id) THEN req.user_id
                                 ELSE req.fingerprint,
                 status      |-> "active",
                 enrolled_at |-> t]
    IN  IF MetaTruthy(req.metadata)
        THEN MergePayload(base, [metadata |-> req.metadata.items])
        ELSE base

\* The pool hands a request to its first idle worker.
FirstIdle(w) == pc[w] = "idle" /\ \A v \in Workers : pc[v] = "idle" => w <= v

\* A handler that may write is entered (the previous response has gone out).
Begin(w) ==
    /\ FirstIdle(w)
    /\ last.op = "none"
    /\ calls < MaxCalls
    /\ calls' = calls + 1
    /\ UNCHANGED aux

\* A handler that only reads is entered.
BeginRead(w) ==
    /\ FirstIdle(w)
    /\ last.op = "none"
    /\ UNCHANGED <<calls, aux>>

\* A call that has written its vector to the collection before it ends.
AnswerAfterUpsert(resp) ==
    /\ last' = resp
    /\ points' = QdrantUpsert(points, [id |-> 0,
                                        vector |-> IF resp.vec \in UnitVecs THEN resp.vec
                                                   ELSE Normalize(VecZero),
                                        payload |-> [status |-> "active",
                                                     fingerprint |-> resp.fp,
                                                     user_id |-> resp.fp]])
    /\ UNCHANGED <<pc, pending, revoked, enrolled>>

\* A call that ends without touching the collection.
Answer(resp) ==
    /\ last' = resp
    /\ UNCHANGED <<points, pc, pending, revoked, enrolled>>

\* enroll up to and including the duplicate check (steps 1-4). storeOk: the
\* store answers the query (otherwise the client raises).
EnrollCheck(w, req, storeOk) ==
    /\ Begin(w)
    /\ LET d   == Decrypted[req.encrypted_embedding]
           vec == Normalize(d.value)
           fp  == req.fingerprint
           hdr == [secret |-> req.secret]
           asked == [secret |-> req.secret, buf |-> Live, thr |-> SIMILARITY_THRESHOLD,
                     limit |-> 1]
       IN  IF ~SecretOk(req.secret)
           THEN Answer(With(Resp("enroll", 401, "Unauthorized", fp, NoVec, <<>>, NoDetail,
                                 -1, -1), hdr))
           ELSE IF d.exc # None
           THEN Answer(With(Resp("enroll", EnrollFailureCode(d.exc), d.exc, fp, NoVec, <<>>,
                                 NoDetail, -1, -1), hdr))
           ELSE IF d.value.len # EMBED_LEN
           THEN Answer(With(Resp("enroll", EnrollFailureCode("DimensionMismatch"),
                                 "DimensionMismatch", fp, NoVec, <<>>, NoDetail, -1, -1),
                            [secret |-> req.secret, buf |-> Decoded]))
           ELSE IF ~storeOk
           THEN Answer(With(Resp("enroll", EnrollFailureCode("StoreError"), "StoreError", fp,
                                 vec, <<>>, NoDetail, vec.num.len, -1), asked))
           ELSE \E duplicates \in SearchSimilar(points, vec, SIMILARITY_THRESHOLD, 1) :
                  IF duplicates # <<>>
                  THEN Answer(With(Resp("enroll", EnrollFailureCode("DuplicateIdentity"),
                                        "DuplicateIdentity", fp, vec, <<>>,
                                        [score       |-> duplicates[1].score,
                                         fingerprint |-> Take(duplicates[1].fingerprint, 8)],
                                        vec.num.len, -1), asked))
                  ELSE /\ pc' = [pc EXCEPT ![w] = "checked"]
                       /\ pending' = [pending EXCEPT ![w] = [req |-> req, vec |-> vec]]
                       /\ UNCHANGED <<points, last, revoked, enrolled>>

\* enroll from the upsert on (steps 5-6). t: the reading of time.time().
EnrollUpsert(w, t, storeOk) ==
    /\ pc[w] = "checked"
    /\ last.op = "none"
    /\ LET req == pending[w].req
           vec == pending[w].vec
           fp  == req.fingerprint
           asked == [secret |-> req.secret, buf |-> Live, thr |-> SIMILARITY_THRESHOLD,
                     limit |-> 1]
       IN  /\ pc' = [pc EXCEPT ![w] = "idle"]
           /\ pending' = [pending EXCEPT ![w] = NoPending]
           /\ UNCHANGED <<calls, revoked, aux>>
           /\ IF ~StorageKeyOk(fp)
              THEN /\ last' = With(Resp("enroll", EnrollFailureCode("BadFingerprint"),
                                        "BadFingerprint", fp, vec, <<>>, NoDetail,
                                        vec.num.len, -1), asked)
                   /\ UNCHANGED <<points, enrolled>>
              ELSE IF ~storeOk
              THEN /\ last' = With(Resp("enroll", EnrollFailureCode("StoreError"),
                                        "StoreError", fp, vec, <<>>, NoDetail, vec.num.len,
                                        vec.num.len), asked)
                   /\ UNCHANGED <<points, enrolled>>
              ELSE /\ points' = UpsertEmbedding(points, fp, vec, EnrollPayload(req, t))
                   /\ enrolled' = enrolled \cup {fp}
                   /\ last' = With(Resp("enroll", 200, None, fp, vec, <<>>, NoDetail,
                                        vec.num.len, vec.num.len),
                                   [asked EXCEPT !.buf = Scrubbed])

\* threshold = req.threshold or SIMILARITY_THRESHOLD
SearchThreshold(threshold) ==
    IF threshold = NoThreshold \/ threshold = 0 THEN SIMILARITY_THRESHOLD ELSE threshold

\* search
Search(w, req, storeOk) ==
    /\ BeginRead(w)
    /\ LET d   == Decrypted[req.encrypted_embedding]
           vec == Normalize(d.value)
           threshold == SearchThreshold(req.threshold)
           hdr == [secret |-> req.secret, rthr |-> req.threshold]
           asked == [secret |-> req.secret, rthr |-> req.threshold, buf |-> Live,
                     thr |-> threshold, limit |-> req.top_k]
       IN  IF ~SecretOk(req.secret)
           THEN Answer(With(Resp("search", 401, "Unauthorized", <<>>, NoVec, <<>>, NoDetail,
                                 -1, -1), hdr))
           ELSE IF d.exc # None
           THEN Answer(With(Resp("search", FailureCode(d.exc), d.exc, <<>>, NoVec, <<>>,
                                 NoDetail, -1, -1), hdr))
           ELSE IF ~storeOk
           THEN Answer(With(Resp("search", FailureCode("StoreError"), "StoreError", <<>>, vec,
                                 <<>>, NoDetail, vec.num.len, -1), asked))
           ELSE IF vec.num.len # VECTOR_DIM
           THEN Answer(With(Resp("search", FailureCode("StoreBadVector"), "StoreBadVector",
                                 <<>>, vec, <<>>, NoDetail, vec.num.len, -1), asked))
           ELSE \E results \in SearchSimilar(points, vec, threshold, req.top_k) :
                  Answer(With(Resp("search", 200, None, <<>>, vec, results, NoDetail,
                                   vec.num.len, -1),
                              [asked EXCEPT !.buf = Scrubbed]
                                  @@ [matched |-> Len(results) > 0]))

\* delete
Delete(w, req, storeOk) ==
    /\ Begin(w)
    /\ LET fp  == req.fingerprint
           hdr == [secret |-> req.secret]
       IN  IF ~SecretOk(req.secret)
           THEN Answer(With(Resp("delete", 401, "Unauthorized", fp, NoVec, <<>>, NoDetail,
                                 -1, -1), hdr))
           ELSE IF ~StorageKeyOk(fp)
           THEN Answer(With(Resp("delete", FailureCode("BadFingerprint"), "BadFingerprint", fp,
                                 NoVec, <<>>, NoDetail, -1, -1), hdr))
           ELSE IF ~storeOk
           THEN Answer(With(Resp("delete", FailureCode("StoreError"), "StoreError", fp, NoVec,
                                 <<>>, NoDetail, -1, -1), hdr))
           ELSE /\ points' = DeleteVector(points, fp)
                /\ revoked' = revoked \cup {fp}
                /\ last' = With(Resp("delete", 200, None, fp, NoVec, <<>>, NoDetail, -1, -1),
                                hdr)
                /\ UNCHANGED <<pc, pending, enrolled>>

\* Collection stats that are made up when the collection cannot be read.
GetCollectionInfoAnyway(cols, pts, storeOk) ==
    [exc |-> None, value |-> [NoDiag EXCEPT !.name = COLLECTION_NAME]]

\* get_collection_info(client): [exc, value]. storeOk: the store answers.
GetCollectionInfo(cols, pts, storeOk) ==
    IF ~storeOk THEN [exc |-> "StoreError", value |-> NoDiag]
    ELSE IF \A c \in cols : c.name # COLLECTION_NAME
    THEN [exc |-> "NotFound", value |-> NoDiag]
    ELSE LET info == CHOOSE c \in cols : c.name = COLLECTION_NAME
         IN  [exc   |-> None,
              value |-> [NoDiag EXCEPT !.name = COLLECTION_NAME,
                                       !.points_count = Cardinality(pts),
                                       !.size = info.size,
                                       !.distance = info.distance]]

\* health: no header is read; a failure of the store becomes the body
\* {"status": "degraded", "error": ...}.
Health(w, storeOk) ==
    /\ BeginRead(w)
    /\ life[1].phase = "serving"
    /\ LET info == GetCollectionInfo(collections, points, storeOk)
       IN  IF info.exc = None
           THEN Answer(With(Resp("health", 200, None, <<>>, NoVec, <<>>, NoDetail, -1, -1),
                            [diag |-> [info.value EXCEPT !.status = "ok"]]))
           ELSE Answer(With(Resp("health", 200, None, <<>>, NoVec, <<>>, NoDetail, -1, -1),
                            [diag |-> [NoDiag EXCEPT !.status = "degraded",
                                                     !.error = info.exc]]))

\* ------------------------------------------------------------------------
\* main.py lifespan and qdrant_store.py ensure_collection
\* ------------------------------------------------------------------------

\* A wait that does not grow.
BackoffConstant(attempt) == 2

\* wait = 2 * (attempt + 1)
Backoff(attempt) == 2 * (attempt + 1)

\* An except clause that tolerates nothing.
AlreadyExistsNever(e) == FALSE

\* "already exists" in str(e). The store's errors: "already exists" from
\* create_collection for a name it holds, "unavailable" when it does not answer.
AlreadyExists(e) == e = "already exists"

\* ensure_collection returned: "Matching Service ready", break, yield.
EnsureReturned(l) == [l EXCEPT !.phase = "serving", !.ready = TRUE]

\* ensure_collection raised: sleep and go round again, or after the last
\* attempt start in degraded mode.
EnsureRaised(l) ==
    IF l.attempt < MAX_RETRIES - 1
    THEN [l EXCEPT !.attempt = @ + 1, !.at = "list",
                   !.waited = Append(@, Backoff(l.attempt))]
    ELSE [l EXCEPT !.phase = "serving", !.degraded = TRUE]

\* lifespan is entered: qdrant = get_client().
LifespanStart(i) ==
    /\ life[i].phase = "loaded"
    /\ life' = [life EXCEPT ![i] = [@ EXCEPT !.phase = "starting", !.qdrant = "client"]]
    /\ UNCHANGED <<points, pc, pending, last, calls, revoked, enrolled, collections, parsed>>

\* ensure_collection is called and lists the collections.
EnsureList(i, storeOk) ==
    /\ life[i].phase = "starting"
    /\ life[i].at = "list"
    /\ LET l == [life[i] EXCEPT !.tries = @ + 1]
       IN  life' = [life EXCEPT ![i] =
                      IF ~storeOk THEN EnsureRaised(l)
                      ELSE IF COLLECTION_NAME \in {c.name : c \in collections}
                      THEN EnsureReturned(l)
                      ELSE [l EXCEPT !.at = "create"]]
    /\ UNCHANGED <<points, pc, pending, last, calls, revoked, enrolled, collections, parsed>>

\* create_collection, and the except clause around it.
EnsureCreate(i, storeOk) ==
    /\ life[i].phase = "starting"
    /\ life[i].at = "create"
    /\ LET held == COLLECTION_NAME \in {c.name : c \in collections}
           e    == IF ~storeOk THEN "unavailable"
                   ELSE IF held THEN "already exists" ELSE None
       IN  /\ collections' = IF e = None THEN collections \cup {NewCollection}
                             ELSE collections
           /\ life' = [life EXCEPT ![i] =
                         IF e = None THEN [@ EXCEPT !.at = "index"]
                         ELSE IF AlreadyExists(e) THEN EnsureReturned([@ EXCEPT !.raced = TRUE])
                         ELSE EnsureRaised(@)]
    /\ UNCHANGED <<points, pc, pending, last, calls, revoked, enrolled, parsed>>

\* create_payload_index on "status".
EnsureIndex(i, storeOk) ==
    /\ life[i].phase = "starting"
    /\ life[i].at = "index"
    /\ collections' = IF storeOk
                      THEN {IF c.name = COLLECTION_NAME THEN Indexed(c, "status") ELSE c
                              : c \in collections}
                      ELSE collections
    /\ life' = [life EXCEPT ![i] = IF storeOk THEN EnsureReturned(@) ELSE EnsureRaised(@)]
    /\ UNCHANGED <<points, pc, pending, last, calls, revoked, enrolled, parsed>>

\* The response goes out to the caller.
Respond ==
    /\ last.op # "none"
    /\ last' = NoResp
    /\ UNCHANGED <<points, pc, pending, calls, revoked, enrolled, aux>>

\* ------------------------------------------------------------------------
\* Specifications
\* ------------------------------------------------------------------------

Next ==
    \/ \E w \in Workers, req \in EnrollRequests, storeOk \in BOOLEAN :
          EnrollCheck(w, req, storeOk)
    \/ \E w \in Workers, t \in Times, storeOk \in BOOLEAN : EnrollUpsert(w, t, storeOk)
    \/ \E w \in Workers, req \in SearchRequests, storeOk \in BOOLEAN :
          Search(w, req, storeOk)
    \/ \E w \in Workers, req \in DeleteRequests, storeOk \in BOOLEAN :
          Delete(w, req, storeOk)
    \/ \E w \in Workers, storeOk \in BOOLEAN : Health(w, storeOk)
    \/ Respond

\* Requests served concurrently: the steps of the workers interleave.
Spec == Init /\ [][Next]_vars

\* No other worker is inside a call.
Alone(w) == \A v \in Workers \ {w} : pc[v] = "idle"

SeqNext ==
    \/ \E w \in Workers, req \in EnrollRequests, storeOk \in BOOLEAN :
          Alone(w) /\ EnrollCheck(w, req, storeOk)
    \/ \E w \in Workers, t \in Times, storeOk \in BOOLEAN :
          Alone(w) /\ EnrollUpsert(w, t, storeOk)
    \/ \E w \in Workers, req \in SearchRequests, storeOk \in BOOLEAN :
          Alone(w) /\ Search(w, req, storeOk)
    \/ \E w \in Workers, req \in DeleteRequests, storeOk \in BOOLEAN :
          Alone(w) /\ Delete(w, req, storeOk)
    \/ \E w \in Workers, storeOk \in BOOLEAN : Alone(w) /\ Health(w, storeOk)
    \/ Respond

\* Requests served one at a time: a call runs to its end before the next starts.
SeqSpec == Init /\ [][SeqNext]_vars

\* First fields of a payload handed to decrypt_embedding: versions, signed
\* and malformed version tags, and an iv.
FirstFields ==
    {<<"v", "1">>, <<"v", "2">>, <<"v", "9">>, <<"v", "1", "2">>, <<"v", "+", "2">>,
     <<"v", "-", "1">>, <<"v", "x">>, <<"v">>, <<"V", "1">>, <<"0", "1">>, <<>>}

\* Hex fields, and one that is not hex.
HexFields == {Hx("0", "1"), Hx("0", "f"), Hx("c", "f"), Hx("z", "z")}

RECURSIVE Join(_)
\* ":".join(fields)
Join(fields) ==
    IF Len(fields) = 1 THEN fields[1] ELSE Colon(fields[1], Join(Tail(fields)))

\* Payloads of one to five fields; the four-field ones carry PayloadF's
\* iv, tag and ciphertext or a field that is not hex.
ParseInputs ==
    {Join(<<a>>) : a \in FirstFields}
    \cup {Join(<<a, b>>) : a \in FirstFields, b \in {Hx("0", "1")}}
    \cup {Join(<<a, b, c>>) : a \in FirstFields, b \in {Hx("0", "f")}, c \in HexFields}
    \cup {Join(<<a, Hx("0", "1"), c, Hx("c", "f")>>) : a \in FirstFields, c \in HexFields}
    \cup {Join(<<a, Hx("0", "1"), Hx("0", "f"), Hx("c", "f"), Hx("0", "1")>>) :
              a \in FirstFields}

\* A payload is about to be handed to decrypt_embedding.
ParseInit ==
    /\ Idle
    /\ collections = {Indexed(NewCollection, "status")}
    /\ life = [i \in Instances |-> Served]
    /\ parsed \in {[NoParsed EXCEPT !.payload = p] : p \in ParseInputs}

\* decrypt_embedding(parsed.payload) runs: the failure it raised and the
\* version it resolved (0: none).
Parse ==
    /\ ~parsed.done
    /\ parsed' = [parsed EXCEPT !.done = TRUE,
                                !.exc = DecryptEmbedding(parsed.payload).exc,
                                !.version = Dispatch(parsed.payload).version]
    /\ UNCHANGED <<points, pc, pending, last, calls, revoked, enrolled, collections, life>>

ParseNext == Parse

\* decrypt_embedding applied to one payload.
ParseSpec == ParseInit /\ [][ParseNext]_vars

\* The module is loaded and the store holds no collection.
BootInit ==
    /\ Idle
    /\ collections = {}
    /\ life = [i \in Instances |-> Loaded]
    /\ parsed = NoParsed

\* A step of instance i's startup.
Startup(i) ==
    \/ LifespanStart(i)
    \/ \E storeOk \in BOOLEAN : EnsureList(i, storeOk)
    \/ \E storeOk \in BOOLEAN : EnsureCreate(i, storeOk)
    \/ \E storeOk \in BOOLEAN : EnsureIndex(i, storeOk)

BootNext ==
    \/ \E i \in Instances : LifespanStart(i)
    \/ \E i \in Instances, storeOk \in BOOLEAN : EnsureList(i, storeOk)
    \/ \E i \in Instances, storeOk \in BOOLEAN : EnsureCreate(i, storeOk)
    \/ \E i \in Instances, storeOk \in BOOLEAN : EnsureIndex(i, storeOk)
    \/ \E w \in Workers, storeOk \in BOOLEAN : Health(w, storeOk)
    \/ Respond

\* Two instances start against one store; instance 1 answers health once it
\* serves. Every await of lifespan returns, so an instance that can take a
\* startup step takes one.
BootSpec == BootInit /\ [][BootNext]_vars /\ \A i \in Instances : WF_vars(Startup(i))

\* ------------------------------------------------------------------------
\* Properties
\* ------------------------------------------------------------------------

\* The first 16 hex characters of a fingerprint.
KeyPrefix(fp) == Take(fp, KEY_HEX_LEN)

\* A call of kind op hands its response over in this step.
Completes(op) == last.op = "none" /\ last'.op = op

\* The similarity of a stored record to vec is at least the enrollment threshold.
SimilarTo(r, vec) == ScoreAtLeast(Cosine(r.vector, vec), SIMILARITY_THRESHOLD)

\* The failures of the store and of a fingerprint that is not hex.
NotOfTheRequest == {"StoreError", "BadFingerprint"}

\* C1: once the record under a storage key is revoked, no step makes the
\* record under that key active again.
C1_RevokedIsTerminal ==
    [][\A r \in points : r.payload.status = "revoked"
          => \A r2 \in points' : r2.id = r.id => r2.payload.status # "active"]_vars

\* C2: a search never returns a fingerprint for which a delete has answered
\* success before it.
C2_RevokedNeverReturned ==
    last.op = "search"
        => \A i \in 1..Len(last.results) : last.results[i].fingerprint \notin revoked

\* C3: with calls served one at a time, an enroll that reaches the duplicate
\* check (and is not cut short by the store or a non-hex fingerprint)
\* answers 409 without an upsert when an active record is similar to its
\* vector, and otherwise answers 200 and leaves an active record for its
\* fingerprint.
C3_Dedup ==
    [][(Completes("enroll") /\ last'.vec # NoVec /\ last'.err \notin NotOfTheRequest)
          => IF \E r \in points : r.payload.status = "active" /\ SimilarTo(r, last'.vec)
             THEN last'.code = 409 /\ last'.ulen = -1 /\ points' = points
             ELSE /\ last'.code = 200
                  /\ \E r \in points' : /\ r.payload.fingerprint = last'.fp
                                        /\ r.payload.status = "active"
                                        /\ r.vector = last'.vec]_vars

\* C3's case: a 409 while an active record of another fingerprint is stored.
C3_Witness ==
    /\ last.op = "enroll"
    /\ last.code = 409
    /\ \E r \in points : r.payload.status = "active" /\ r.payload.fingerprint # last.fp

\* A stored active record under another key that is similar to the vector of
\* the enroll worker w has in progress.
Collides(r, w) ==
    /\ r.payload.status = "active"
    /\ KeyPrefix(r.payload.fingerprint) # KeyPrefix(pending[w].req.fingerprint)
    /\ SimilarTo(r, pending[w].vec)

\* C4: an enroll that passed its duplicate check upserts without checking
\* again: when a similar active record has landed under another key in
\* between, the upsert still answers 200 and both records are active.
C4_RaceWindow ==
    [][\A w \in Workers :
          (/\ pc[w] = "checked"
           /\ pc'[w] = "idle"
           /\ last'.err \notin NotOfTheRequest
           /\ \E r \in points : Collides(r, w))
          => /\ last'.code = 200
             /\ \A r \in points : Collides(r, w) => r \in points'
             /\ \E r \in points' : /\ r.payload.fingerprint = pending[w].req.fingerprint
                                   /\ r.payload.status = "active"
                                   /\ r.vector = pending[w].vec]_vars

\* C4's case: two active records under different keys that should have collided.
C4_Witness ==
    \E r1, r2 \in points :
        /\ r1.id # r2.id
        /\ r1.payload.status = "active"
        /\ r2.payload.status = "active"
        /\ SimilarTo(r1, r2.vector)

\* C5: no search_similar query and no upsert is issued with a vector whose
\* length is not 128.
C5_DimensionGate ==
    /\ last.qlen \in {-1, EMBED_LEN}
    /\ last.ulen \in {-1, EMBED_LEN}

\* C6: a decrypt failure, a dimension mismatch and a duplicate are answered
\* with a 4xx status, and a 5xx status is answered only for a store failure.
C6_ClientErrorsAre4xx ==
    /\ last.err \in DecryptFailures \cup {"DimensionMismatch", "DuplicateIdentity"}
          => last.code \in 400..499
    /\ last.code \in 500..599 => last.err \in {"StoreError", "StoreBadVector"}

\* C7: no two records share the first 16 hex characters of their
\* fingerprints, and after a successful enroll the one record under the
\* request's key is the request's: its fingerprint, vector and payload.
C7_OneRecordPerKey ==
    /\ \A r1, r2 \in points :
          KeyPrefix(r1.payload.fingerprint) = KeyPrefix(r2.payload.fingerprint) => r1 = r2
    /\ (last.op = "enroll" /\ last.code = 200)
          => \E r \in points :
                /\ r.payload.fingerprint = last.fp
                /\ r.vector = last.vec
                /\ r.payload.status = "active"
                /\ ("metadata" \in DOMAIN r.payload) = MetaTruthy(ProfileOf(last.fp).metadata)
                /\ r.payload.user_id = (IF StrTruthy(ProfileOf(last.fp).user_id)
                                        THEN ProfileOf(last.fp).user_id ELSE last.fp)

\* C7's case: an enroll succeeds for a fingerprint whose key another
\* enrolled fingerprint shares.
C7_Witness ==
    /\ last.op = "enroll"
    /\ last.code = 200
    /\ \E f \in enrolled : f # last.fp /\ KeyPrefix(f) = KeyPrefix(last.fp)

\* C8 as stated: every fingerprint enrolled with success is carried by a
\* record in every later state.
C8_FingerprintNeverDeleted ==
    \A f \in enrolled : \E r \in points : r.payload.fingerprint = f

\* C8 as amended: no step removes a record; the record under a key keeps its
\* fingerprint unless the step is a successful enroll of another
\* fingerprint, which the record then carries.
C8_RecordNeverDeleted ==
    [][\A r \in points :
          \E r2 \in points' :
             /\ r2.id = r.id
             /\ r2.payload.fingerprint # r.payload.fingerprint
                   => /\ Completes("enroll")
                      /\ last'.code = 200
                      /\ last'.fp = r2.payload.fingerprint]_vars

\* C8's case: a delete has succeeded for an enrolled fingerprint, and its
\* record is still stored.
C8_Witness ==
    \E f \in enrolled \cap revoked :
        \E r \in points : r.payload.fingerprint = f /\ r.payload.status = "revoked"

\* The collection after a revoke of fingerprint fp that changes nothing but
\* the status of the record under fp's key.
OnlyStatusRevoked(pts, fp) ==
    {IF KeyPrefix(r.payload.fingerprint) = KeyPrefix(fp)
     THEN [r EXCEPT !.payload.status = "revoked"] ELSE r : r \in pts}

\* C9: a delete that answers success sets the status of the record under
\* the fingerprint's key to revoked and changes nothing else; a delete that
\* fails changes nothing.
C9_RevokeFrame ==
    [][Completes("delete")
          => IF last'.code = 200 THEN points' = OnlyStatusRevoked(points, last'.fp)
             ELSE points' = points]_vars

\* C9's case: a successful delete of a stored record next to another record.
C9_Witness ==
    /\ last.op = "delete"
    /\ last.code = 200
    /\ \E r1, r2 \in points :
          /\ r1.id # r2.id
          /\ KeyPrefix(r1.payload.fingerprint) = KeyPrefix(last.fp)
          /\ r1.payload.status = "revoked"

C11_EnrollFailsClosed ==
    [][/\ (Completes("enroll") /\ last'.code # 200)
            => /\ points' = points
               /\ last'.ulen # -1
                     => /\ last'.err = "StoreError"
                        /\ \E w \in Workers : pc[w] = "checked" /\ pc'[w] = "idle"
       /\ (\E w \in Workers : pc[w] = "idle" /\ pc'[w] = "checked") => points' = points]_vars

\* C11's case: a duplicate is refused while the collection holds records.
C11_Witness ==
    /\ last.op = "enroll"
    /\ last.err = "DuplicateIdentity"
    /\ last.ulen = -1
    /\ points # {}

\* C12: enroll, search and delete with a missing or wrong secret answer 401
\* with nothing decrypted, no store call made and the collection unchanged;
\* health reads no secret and answers 200.
C12_SecretFirst ==
    [][/\ \A op \in {"enroll", "search", "delete"} :
            (Completes(op) /\ last'.secret # MATCHING_SECRET)
               => /\ last'.code = 401
                  /\ last'.buf = NoBuf
                  /\ last'.vec = NoVec
                  /\ last'.qlen = -1
                  /\ last'.ulen = -1
                  /\ points' = points
       /\ Completes("health") => last'.code = 200 /\ last'.secret = None]_vars

\* C12's case: a call without the header is refused while records are stored.
C12_Witness ==
    /\ last.code = 401
    /\ last.secret = None
    /\ points # {}

\* The store holds the collection.
Held(cols) == COLLECTION_NAME \in {c.name : c \in cols}

\* C13: health never fails: it answers 200 with status ok and the
\* collection's diagnostics when the store call succeeds, with status
\* degraded and an error summary when it fails (the store does not answer,
\* or the service started degraded and the collection is missing), and it
\* changes neither the collection nor its records.
C13_HealthNeverRaises ==
    [][/\ Completes("health")
            => /\ last'.code = 200
               /\ points' = points
               /\ collections' = collections
               /\ last'.diag.status \in {"ok", "degraded"}
               /\ last'.diag.status = "ok"
                     => /\ Held(collections)
                        /\ last'.diag.error = None
                        /\ last'.diag.name = COLLECTION_NAME
                        /\ last'.diag.points_count = Cardinality(points)
                        /\ last'.diag.size = VECTOR_DIM
               /\ last'.diag.status = "degraded" => last'.diag.error # None
       /\ \A w \in Workers :
            /\ (Health(w, TRUE) /\ Held(collections)) => last'.diag.status = "ok"
            /\ (Health(w, FALSE) \/ (Health(w, TRUE) /\ ~Held(collections)))
                  => last'.diag.status = "degraded"]_vars

\* C13's case: health answers degraded after the retries were exhausted.
C13_Witness ==
    /\ last.op = "health"
    /\ last.diag.status = "degraded"
    /\ life[1].degraded

\* The shape of a startup: at most MAX_RETRIES ensure_collection calls, the
\* k-th wait of 2k seconds, a wait after every failed call but the last.
StartupShape(l) ==
    /\ l.tries <= MAX_RETRIES
    /\ l.waited = [k \in 1..Len(l.waited) |-> 2 * k]
    /\ l.phase = "starting" => Len(l.waited) = l.attempt /\ l.tries \in {l.attempt, l.attempt + 1}
    /\ l.phase = "serving"
          => \/ l.ready /\ ~l.degraded /\ Len(l.waited) = l.tries - 1
             \/ l.degraded /\ ~l.ready /\ l.tries = MAX_RETRIES
                /\ Len(l.waited) = MAX_RETRIES - 1

\* C14: every startup reaches the serving state, after at most 10
\* ensure_collection calls, none after the first that succeeds, with a wait
\* of 2k seconds after the k-th failure for k = 1..9 and none after the
\* 10th, which starts the service degraded.
C14_StartupTerminates ==
    /\ \A i \in Instances : <>(life[i].phase = "serving")
    /\ [](\A i \in Instances : StartupShape(life[i]))
    /\ [][\A i \in Instances : life[i].phase = "serving" => life'[i] = life[i]]_vars

\* C14's case: ten calls failed and the service serves degraded.
C14_Witness ==
    \E i \in Instances :
        /\ life[i].phase = "serving"
        /\ life[i].degraded
        /\ life[i].waited = <<2, 4, 6, 8, 10, 12, 14, 16, 18>>

\* C15: the threshold search_similar is called with is the request's
\* threshold when it carries one, zero included, and the default otherwise.
C15_ThresholdPassed ==
    (last.op = "search" /\ last.thr # -1)
        => last.thr = (IF last.rthr = NoThreshold THEN SIMILARITY_THRESHOLD ELSE last.rthr)

\* The first field is v followed by one or more digits.
IsVersionTag(field) ==
    /\ Len(field) >= 2
    /\ field[1] = "v"
    /\ \A k \in 2..Len(field) : IsDigit(field[k])

\* The failures of the format dispatch.
FormatFailures == {"UnknownFormat", "BadVersion"}

\* C16: three fields resolve to version 1, four fields with a first field
\* v<digits> resolve to that version, and every other shape fails in the
\* format dispatch.
C16_FormatDispatch ==
    parsed.done
        => LET parts == Split(parsed.payload, ":")
           IN  IF Len(parts) = 3
               THEN parsed.version = 1 /\ parsed.exc \notin FormatFailures
               ELSE IF Len(parts) = 4 /\ IsVersionTag(parts[1])
               THEN /\ parsed.version = DigitsVal(Tail(parts[1]))
                    /\ parsed.exc \notin FormatFailures
               ELSE parsed.exc \in FormatFailures

\* C17: an instance whose ensure_collection has returned finds the
\* collection and its index on status in the store.
C17_EnsureEstablishes ==
    \A i \in Instances :
        life[i].ready
            => \E c \in collections : c.name = COLLECTION_NAME /\ "status" \in c.indexes

\* C18: a caller that saw no collection and whose create_collection is
\* answered "already exists" returns from ensure_collection without raising,
\* and the store holds the one collection.
C18_RaceTolerated ==
    [][\A i \in Instances :
          (EnsureCreate(i, TRUE) /\ Held(collections))
             => /\ life'[i].phase = "serving"
                /\ life'[i].ready
                /\ ~life'[i].degraded
                /\ collections' = collections
                /\ Cardinality({c \in collections' : c.name = COLLECTION_NAME}) = 1]_vars

\* C18's case: both instances saw no collection, one created it and the
\* other was answered "already exists".
C18_Witness ==
    \E i, j \in Instances :
        /\ i # j
        /\ life[i].raced
        /\ life[i].ready
        /\ life[j].tries = 1
        /\ life[j].at = "index"
        /\ Cardinality(collections) = 1

\* The score of record r against the query of response resp.
ScoreOf(r, resp) == Cosine(r.vector, resp.vec)

\* C19: a search that succeeds returns only records that are active and
\* score at least the threshold it used, at most top_k of them, as many as
\* qualify up to top_k, in non-increasing order of score, none of the
\* omitted scoring higher than a returned one; matched says whether the
\* list is non-empty.
C19_SearchResults ==
    [][(Completes("search") /\ last'.code = 200)
          => LET res  == last'.results
                 qual == {r \in points : /\ r.payload.status = "active"
                                         /\ ScoreAtLeast(ScoreOf(r, last'), last'.thr)}
                 Rec(k) == CHOOSE r \in points : r.payload.fingerprint = res[k].fingerprint
             IN  /\ \A k \in 1..Len(res) :
                       /\ \E r \in qual : r.payload.fingerprint = res[k].fingerprint
                       /\ res[k].score = ScoreOf(Rec(k), last')
                       /\ res[k].user_id = Rec(k).payload.user_id
                 /\ Len(res) = Min(last'.limit, Cardinality(qual))
                 /\ \A k, m \in 1..Len(res) :
                       /\ k < m => ScoreGE(res[k].score, res[m].score)
                       /\ k # m => res[k].fingerprint # res[m].fingerprint
                 /\ \A r \in qual :
                       (\A k \in 1..Len(res) : res[k].fingerprint # r.payload.fingerprint)
                          => \A k \in 1..Len(res) : ScoreGE(res[k].score, ScoreOf(r, last'))
                 /\ last'.matched = (Len(res) > 0)]_vars

\* C19's case: a search returns two results, the first scoring strictly
\* higher than the second.
C19_Witness ==
    /\ last.op = "search"
    /\ last.code = 200
    /\ Len(last.results) = 2
    /\ ~ScoreGE(last.results[2].score, last.results[1].score)

\* C20: when enroll or search produces its response after decrypting, the
\* plaintext buffers have been scrubbed.
C20_BuffersScrubbed ==
    (last.op \in {"enroll", "search"} /\ last.buf.embedding # "absent")
        => last.buf = Scrubbed

\* C21: with calls served one at a time, no two distinct active records have
\* vectors whose similarity is at least the enrollment threshold.
C21_NoActiveDuplicates ==
    \A r1, r2 \in points :
        (r1 # r2 /\ r1.payload.status = "active" /\ r2.payload.status = "active")
            => ~SimilarTo(r1, r2.vector)

\* C21's case: a duplicate has just been refused while two active records
\* are stored.
C21_Witness ==
    /\ last.op = "enroll"
    /\ last.code = 409
    /\ \E r1, r2 \in points :
          r1 # r2 /\ r1.payload.status = "active" /\ r2.payload.status = "active"

\* C22: a delete for a hex fingerprint that the store answers is a success
\* and leaves the record under the fingerprint's key revoked, with the
\* fingerprint it carried, whether or not that is the fingerprint of the
\* request.
C22_RevokeByKey ==
    [][(Completes("delete") /\ last'.err \notin {"Unauthorized"} \cup NotOfTheRequest)
          => /\ last'.code = 200
             /\ \A r \in points :
                  KeyPrefix(r.payload.fingerprint) = KeyPrefix(last'.fp)
                     => \E r2 \in points' :
                           /\ r2.id = r.id
                           /\ r2.payload.fingerprint = r.payload.fingerprint
                           /\ r2.payload.status = "revoked"]_vars

\* C22's case: a delete for a fingerprint that was never enrolled has
\* revoked the record of an enrolled fingerprint with the same first 16 hex
\* characters.
C22_Witness ==
    /\ last.op = "delete"
    /\ last.code = 200
    /\ last.fp \notin enrolled
    /\ \E r \in points :
          /\ r.payload.fingerprint # last.fp
          /\ r.payload.fingerprint \in enrolled
          /\ KeyPrefix(r.payload.fingerprint) = KeyPrefix(last.fp)
          /\ r.payload.status = "revoked"

\* The vector is not the zero vector.
Nonzero(vec) == vec \in UnitVecs /\ DotTable[vec, vec] > 0

\* What a successful enroll leaves: a record that is active and carries the
\* request's fingerprint, vector and user_id (the fingerprint when the
\* request has none).
EnrollStores ==
    \A w \in Workers :
        (/\ pc[w] = "checked"
         /\ pc'[w] = "idle"
         /\ Completes("enroll")
         /\ last'.code = 200)
           => \E r \in points' :
                 /\ r.payload.fingerprint = pending[w].req.fingerprint
                 /\ r.vector = pending[w].vec
                 /\ r.payload.status = "active"
                 /\ r.payload.user_id
                       = (IF pending[w].req.user_id \in {None, ""}
                          THEN pending[w].req.fingerprint
                          ELSE pending[w].req.user_id)

\* A search with a nonzero vector at the default threshold and top_k = 1
\* that the store answers.
DefaultSearch ==
    /\ Completes("search")
    /\ last'.code = 200
    /\ last'.rthr = NoThreshold
    /\ last'.limit = 1
    /\ Nonzero(last'.vec)

\* The active records that hold the vector.
ActiveWith(vec) ==
    {r \in points : r.payload.status = "active" /\ r.vector = vec}

====
